---- MODULE Spec2Model ----
(***************************************************************************)
(* rbin: a command-line pastebin (src/main.rs).                            *)
(*                                                                         *)
(* POST /     handle_paste_submission: reads the multipart form, takes the *)
(*            first field named 'rbin', draws a random 6-character id and  *)
(*            writes the text to <paste_dir>/<id>.txt with fs::write.      *)
(* GET /:id   retrieve_paste: checks the id, reads <paste_dir>/<id>.txt    *)
(*            with fs::read_to_string and maps the outcome to a status.    *)
(*                                                                         *)
(* Every request is an independent task.  The only shared state is the     *)
(* paste directory, which main() creates if missing and never empties.     *)
(* A handler runs until it awaits and is resumed later, so every await is  *)
(* a step boundary: next_field(), text() and bytes() of the form, and the  *)
(* file operations, which tokio runs call by call on its blocking threads. *)
(* fs::write is File::create (open, create, truncate) followed by          *)
(* write_all, a loop of write calls at the handle's own offset; the        *)
(* handler answers when it is resumed after the last one.                  *)
(* fs::read_to_string is an open followed by read calls up to the end of   *)
(* the file and a UTF-8 check of what was read; the handler matches on the *)
(* result and answers when it is resumed after the last call.              *)
(*                                                                         *)
(* A String is the sequence of its Unicode code points where the code      *)
(* looks at characters (the id of a GET), and the sequence of its UTF-8    *)
(* bytes elsewhere (form data, file content, paths, response bodies).      *)
(***************************************************************************)
EXTENDS Integers, Sequences, FiniteSets, Bags, TLC

\* ---------------------------------------------------------------- bounds
\* number of POST / requests in a run
MaxPosts == 2
\* longest candidate id (in characters) given to the id check on its own
MaxCandLen == 7

\* ------------------------------------------------------------- constants
ID_LENGTH == 6

\* "pastes"
DEFAULT_PASTE_DIR == <<112, 97, 115, 116, 101, 115>>

\* ------------------------------------------------------------ text, UTF-8
\* number of bytes of the UTF-8 encoding of one code point
Utf8Len(c) ==
    IF c < 128 THEN 1
    ELSE IF c < 2048 THEN 2
    ELSE IF c < 65536 THEN 3
    ELSE 4

RECURSIVE StrLen(_)
\* String::len: the length of a string in BYTES
StrLen(s) == IF s = <<>> THEN 0 ELSE Utf8Len(Head(s)) + StrLen(Tail(s))

\* the UTF-8 bytes of one code point
Utf8Char(c) ==
    IF c < 128 THEN <<c>>
    ELSE IF c < 2048 THEN <<192 + (c \div 64), 128 + (c % 64)>>
    ELSE IF c < 65536
         THEN <<224 + (c \div 4096), 128 + ((c \div 64) % 64), 128 + (c % 64)>>
    ELSE <<240 + (c \div 262144), 128 + ((c \div 4096) % 64),
           128 + ((c \div 64) % 64), 128 + (c % 64)>>

RECURSIVE Utf8(_)
\* the bytes of a String given as code points
Utf8(s) == IF s = <<>> THEN <<>> ELSE Utf8Char(Head(s)) \o Utf8(Tail(s))

\* [A-Za-z0-9]
IsAsciiAlphanumeric(c) ==
    \/ c \in 48..57
    \/ c \in 65..90
    \/ c \in 97..122

\* Code points outside ASCII that Unicode classes as Alphabetic or Numeric,
\* restricted to the ones the model uses:
\* U+00E9 (e acute), U+0661 (arabic-indic digit one), U+4E2D (CJK zhong).
UnicodeAlphanumeric == {233, 1633, 20013}

\* char::is_alphanumeric: Unicode Alphabetic or Numeric, not only ASCII
IsAlphanumeric(c) ==
    \/ IsAsciiAlphanumeric(c)
    \/ c \in UnicodeAlphanumeric

\* is the byte a UTF-8 continuation byte
IsCont(b) == b \in 128..191

\* length of the UTF-8 sequence the lead byte announces, 0 for a byte that
\* cannot start one
Utf8Need(b) ==
    IF b < 128 THEN 1
    ELSE IF b \in 194..223 THEN 2
    ELSE IF b \in 224..239 THEN 3
    ELSE IF b \in 240..244 THEN 4
    ELSE 0

\* may byte c follow lead byte b
Utf8Second(b, c) ==
    IF b = 224 THEN c \in 160..191
    ELSE IF b = 237 THEN c \in 128..159
    ELSE IF b = 240 THEN c \in 144..191
    ELSE IF b = 244 THEN c \in 128..143
    ELSE IsCont(c)

\* number of bytes at the start of bs that belong to the sequence its lead
\* byte starts (bs is not empty and bs[1] is a lead byte)
Utf8Matched(bs) ==
    LET ok(m) == /\ m <= Len(bs)
                 /\ \A k \in 2..m :
                       IF k = 2 THEN Utf8Second(bs[1], bs[2]) ELSE IsCont(bs[k])
        S == {m \in 1..Utf8Need(bs[1]) : ok(m)}
    IN  CHOOSE m \in S : \A n \in S : n <= m

RECURSIVE Utf8Valid(_)
\* str::from_utf8 succeeds on the byte sequence
Utf8Valid(bs) ==
    IF bs = <<>> THEN TRUE
    ELSE /\ Utf8Need(bs[1]) # 0
         /\ Utf8Matched(bs) = Utf8Need(bs[1])
         /\ Utf8Valid(SubSeq(bs, Utf8Need(bs[1]) + 1, Len(bs)))

\* U+FFFD, the replacement character, as UTF-8
Replacement == <<239, 191, 189>>

\* the byte order marks Encoding::decode looks for
ByteOrderMark == <<239, 187, 191>>
ByteOrderMarkLE == <<255, 254>>
ByteOrderMarkBE == <<254, 255>>

RECURSIVE Utf8Lossy(_)
\* UTF-8 decoding that cannot fail: every malformed sequence becomes U+FFFD
Utf8Lossy(bs) ==
    IF bs = <<>> THEN <<>>
    ELSE IF Utf8Need(bs[1]) = 0 THEN Replacement \o Utf8Lossy(Tail(bs))
    ELSE LET m == Utf8Matched(bs)
         IN  IF m = Utf8Need(bs[1])
             THEN SubSeq(bs, 1, m) \o Utf8Lossy(SubSeq(bs, m + 1, Len(bs)))
             ELSE Replacement \o Utf8Lossy(SubSeq(bs, m + 1, Len(bs)))

\* the 16-bit unit of two bytes, big endian (be) or little endian
Unit16(b1, b2, be) == IF be THEN b1 * 256 + b2 ELSE b2 * 256 + b1

RECURSIVE Utf16Lossy(_, _)
\* UTF-16 decoding that cannot fail, to UTF-8: a surrogate without its
\* partner becomes U+FFFD, and so does what is left of a unit at the end
Utf16Lossy(bs, be) ==
    IF bs = <<>> THEN <<>>
    ELSE IF Len(bs) = 1 THEN Replacement
    ELSE LET u == Unit16(bs[1], bs[2], be)
             rest == SubSeq(bs, 3, Len(bs))
         IN  IF u \in 55296..56319
             THEN IF Len(bs) < 4 THEN Replacement
                  ELSE LET v == Unit16(bs[3], bs[4], be)
                       IN  IF v \in 56320..57343
                           THEN Utf8Char(65536 + (u - 55296) * 1024 + (v - 56320))
                                    \o Utf16Lossy(SubSeq(bs, 5, Len(bs)), be)
                           ELSE Replacement \o Utf16Lossy(rest, be)
             ELSE IF u \in 56320..57343 THEN Replacement \o Utf16Lossy(rest, be)
             ELSE Utf8Char(u) \o Utf16Lossy(rest, be)

\* windows-1252: the code points of the bytes 80..9F
Windows1252High ==
    << 8364, 129, 8218, 402, 8222, 8230, 8224, 8225,
       710, 8240, 352, 8249, 338, 141, 381, 143,
       144, 8216, 8217, 8220, 8221, 8226, 8211, 8212,
       732, 8482, 353, 8250, 339, 157, 382, 376 >>

RECURSIVE Windows1252(_)
\* windows-1252 decoding, to UTF-8: every byte is a character
Windows1252(bs) ==
    IF bs = <<>> THEN <<>>
    ELSE LET b == Head(bs)
             c == IF b \in 128..159 THEN Windows1252High[b - 127] ELSE b
         IN  Utf8Char(c) \o Windows1252(Tail(bs))

\* Encoding::for_label(charset).unwrap_or(UTF_8) for the labels of the model:
\* no charset parameter ("") and every label that names no encoding give
\* UTF-8.  (Labels of other encodings are not among the inputs.)
EncodingForLabel(label) ==
    IF label \in {"utf-16le", "utf-16"} THEN "UTF-16LE"
    ELSE IF label = "utf-16be" THEN "UTF-16BE"
    ELSE IF label \in {"windows-1252", "iso-8859-1", "latin1", "us-ascii"}
         THEN "windows-1252"
    ELSE "UTF-8"

\* the decoder of an encoding, without byte order mark handling
DecodeWith(encoding, bs) ==
    IF encoding = "UTF-16LE" THEN Utf16Lossy(bs, FALSE)
    ELSE IF encoding = "UTF-16BE" THEN Utf16Lossy(bs, TRUE)
    ELSE IF encoding = "windows-1252" THEN Windows1252(bs)
    ELSE Utf8Lossy(bs)

\* field.text() on the bytes of a part whose Content-Type has the charset
\* parameter label: Encoding::decode.  A byte order mark at the start decides
\* the encoding, whatever the label says, and is dropped; nothing fails.
DecodeText(label, bs) ==
    IF Len(bs) >= 3 /\ SubSeq(bs, 1, 3) = ByteOrderMark
    THEN Utf8Lossy(SubSeq(bs, 4, Len(bs)))
    ELSE IF Len(bs) >= 2 /\ SubSeq(bs, 1, 2) = ByteOrderMarkLE
    THEN Utf16Lossy(SubSeq(bs, 3, Len(bs)), FALSE)
    ELSE IF Len(bs) >= 2 /\ SubSeq(bs, 1, 2) = ByteOrderMarkBE
    THEN Utf16Lossy(SubSeq(bs, 3, Len(bs)), TRUE)
    ELSE DecodeWith(EncodingForLabel(label), bs)

\* ---------------------------------------------------------------- id check
\* The condition of retrieve_paste under which the id is used:
\* the negation of  id.len() != ID_LENGTH || !id.chars().all(is_alphanumeric)
IdAccepted(id) ==
    ~ (StrLen(id) # ID_LENGTH \/ ~ (\A i \in 1..Len(id) : IsAlphanumeric(id[i])))

\* ------------------------------------------------------------------ paths
\* ".txt"
TxtSuffix == <<46, 116, 120, 116>>

\* a file name that leaves the id out
FileNameWithoutId(id) == <<112>> \o TxtSuffix

\* format!("{}.txt", id)
FileName(id) == id \o TxtSuffix

\* PathBuf::join on the bytes of the paths: an absolute component replaces
\* the base; a relative one is appended, after a separator when the base is
\* not empty and does not end in one
PathJoin(dir, name) ==
    IF name # <<>> /\ name[1] = 47 THEN name
    ELSE IF dir = <<>> \/ dir[Len(dir)] = 47 THEN dir \o name
    ELSE dir \o <<47>> \o name

\* state.paste_dir.join(format!("{}.txt", id)), with the default directory
FilePath(id) == PathJoin(DEFAULT_PASTE_DIR, Utf8(FileName(id)))

\* --------------------------------------------------------- request inputs
\* "a", and "b" followed by the two bytes of U+00E9
TextA == <<97>>
TextBE == <<98, 195, 169>>

\* One part of a multipart form: its name, the charset parameter of its
\* Content-Type ("" when it has none) and its data bytes.
\* ok = FALSE: next_field() fails at this part (malformed form).
\* read = FALSE: the body breaks off while the data of the part is read.
Part(name, charset, data) ==
    [ok |-> TRUE, read |-> TRUE, name |-> name, charset |-> charset, data |-> data]
Malformed ==
    [ok |-> FALSE, read |-> FALSE, name |-> "", charset |-> "", data |-> <<>>]
Unreadable(name) ==
    [ok |-> TRUE, read |-> FALSE, name |-> name, charset |-> "", data |-> <<>>]

\* A request header: absent, a value that is text, or a value to_str refuses
NoHeader == [set |-> FALSE, text |-> FALSE, value |-> <<>>]
Header(v) == [set |-> TRUE, text |-> TRUE, value |-> v]
BinaryHeader == [set |-> TRUE, text |-> FALSE, value |-> <<255>>]

\* "example.org:3000" and "https"
HostExample == <<101, 120, 97, 109, 112, 108, 101, 46, 111, 114, 103, 58, 51, 48, 48, 48>>
ProtoHttps == <<104, 116, 116, 112, 115>>

Request(host, proto, form) == [host |-> host, proto |-> proto, form |-> form]

\* The requests sent to POST / : Host and X-Forwarded-Proto headers and form.
\* In order: no part; a malformed part; an 'rbin' part that cannot be read;
\* an 'rbin' part holding a UTF-16 byte order mark and nothing else; two
\* 'rbin' parts, the first "a" in UTF-16 behind its byte order mark; a part
\* of another name, then 'rbin' labelled windows-1252 but starting with the
\* UTF-8 byte order mark, followed by "b" and U+00E9.
Requests ==
    { Request(NoHeader, NoHeader, <<>>),
      Request(NoHeader, NoHeader, << Malformed >>),
      Request(NoHeader, NoHeader, << Unreadable("rbin") >>),
      Request(NoHeader, NoHeader, << Part("rbin", "", ByteOrderMarkBE) >>),
      Request(NoHeader, BinaryHeader,
              << Part("rbin", "", ByteOrderMarkLE \o <<97, 0>>), Part("rbin", "", TextBE) >>),
      Request(Header(HostExample), Header(ProtoHttps),
              << Part("file", "", TextA),
                 Part("rbin", "windows-1252", ByteOrderMark \o TextBE) >>) }

\* "aaaaaa", "aZ3kq9", "000000", "aZ3kq9X", "../etc"
IdAs == <<97, 97, 97, 97, 97, 97>>
IdExample == <<97, 90, 51, 107, 113, 57>>
IdZeros == <<48, 48, 48, 48, 48, 48>>
IdSeven == <<97, 90, 51, 107, 113, 57, 88>>
IdDotDotEtc == <<46, 46, 47, 101, 116, 99>>

\* ids the random source returns in the model
\* (Alphanumeric.sample_string draws ID_LENGTH characters of [A-Za-z0-9])
GeneratedIds == {IdAs, IdExample}

\* ids requested with GET /:id : the two above, "000000" (well formed, never
\* written), "aZ3kq9X" (7 characters) and "../etc"
RequestedIds ==
    GeneratedIds \cup {IdZeros, IdSeven, IdDotDotEtc}

\* characters of the candidates given to the id check on its own:
\* 'a', '.', U+00E9, U+4E2D, U+20AC
CandidateChars == {97, 46, 233, 20013, 8364}

Candidates == UNION { [1..n -> CandidateChars] : n \in 0..MaxCandLen }

\* ------------------------------------------------------- multipart reading
\* multipart.next_field() when the loop of handle_paste_submission is at part
\* i of the form: "none" after the last part, "error" at a malformed part or
\* when the body broke off in the part before, else the part, "rbin" or
\* "other" by its name
NextField(form, i) ==
    IF i > 1 /\ ~ form[i - 1].read THEN "error"
    ELSE IF i > Len(form) THEN "none"
    ELSE IF ~ form[i].ok THEN "error"
    ELSE IF form[i].name = "rbin" THEN "rbin"
    ELSE "other"

\* field.text(): fails only when the body cannot be read
FieldText(field) ==
    IF field.read
    THEN [ok |-> TRUE, text |-> DecodeText(field.charset, field.data)]
    ELSE [ok |-> FALSE, text |-> <<>>]

\* a test that finds no text empty
IsEmptyNever(content) == FALSE

\* content.is_empty()
IsEmpty(content) == content = <<>>

\* the value of a header, or the fallback when it is absent or not text
HeaderOr(h, fallback) == IF h.set /\ h.text THEN h.value ELSE fallback

\* result_url: "<scheme>://<host>/<id>", host from the Host header or
\* "localhost", scheme from X-Forwarded-Proto or "http"
ResultUrl(req, id) ==
    HeaderOr(req.proto, <<104, 116, 116, 112>>) \o <<58, 47, 47>>
        \o HeaderOr(req.host, <<108, 111, 99, 97, 108, 104, 111, 115, 116>>)
        \o <<47>> \o Utf8(id)

\* ------------------------------------------------------------ file system
\* write(2) of the bytes at the offset of the handle: bytes before the offset
\* and after the written range stay, a gap past the end reads as zeros
WriteAt(data, off, bytes) ==
    LET n == IF Len(data) > off + Len(bytes) THEN Len(data) ELSE off + Len(bytes)
    IN  [i \in 1..n |->
            IF i > off /\ i <= off + Len(bytes) THEN bytes[i - off]
            ELSE IF i <= Len(data) THEN data[i]
            ELSE 0]

\* read(2) of up to n bytes at the offset of the handle: what the file holds
\* there at this moment, nothing at or past its end
ReadAt(data, off, n) ==
    IF off >= Len(data) THEN <<>>
    ELSE SubSeq(data, off + 1, IF off + n < Len(data) THEN off + n ELSE Len(data))

\* the end of fs::read_to_string: the bytes read must be UTF-8
FromUtf8(bytes) ==
    IF Utf8Valid(bytes) THEN [kind |-> "Ok", text |-> bytes]
    ELSE [kind |-> "InvalidData", text |-> <<>>]

\* the results of a read that failed at the open or at a read call
NotFound == [kind |-> "NotFound", text |-> <<>>]
PermissionDenied == [kind |-> "PermissionDenied", text |-> <<>>]

\* "text/plain; charset=utf-8" is set on a paste, Html(..) sets "text/html"
TextPlain == "text/plain; charset=utf-8"
TextHtml == "text/html; charset=utf-8"

\* a match that answers 500 to every failed read, NotFound included
ReadResponseConflated(id, r) ==
    IF r.kind = "Ok" THEN [status |-> 200, ctype |-> TextPlain, body |-> r.text]
    ELSE [status |-> 500, ctype |-> TextHtml, body |-> <<69, 114, 114, 111, 114, 32, 114, 101, 116, 114, 105, 101, 118, 105, 110, 103, 32, 112, 97, 115, 116, 101, 46>>]

\* the match of retrieve_paste on the result of the read: the paste,
\* "Paste '<id>' not found." or "Error retrieving paste."
ReadResponse(id, r) ==
    IF r.kind = "Ok" THEN [status |-> 200, ctype |-> TextPlain, body |-> r.text]
    ELSE IF r.kind = "NotFound"
         THEN [status |-> 404, ctype |-> TextHtml,
               body |-> <<80, 97, 115, 116, 101, 32, 39>> \o Utf8(id) \o <<39, 32, 110, 111, 116, 32, 102, 111, 117, 110, 100, 46>>]
    ELSE [status |-> 500, ctype |-> TextHtml, body |-> <<69, 114, 114, 111, 114, 32, 114, 101, 116, 114, 105, 101, 118, 105, 110, 103, 32, 112, 97, 115, 116, 101, 46>>]

\* ------------------------------------------------------------------ state
VARIABLES
    files,    \* the paste directory: path |-> bytes of the file, for the files that exist
    post,     \* the POST / tasks, a bag: position, request, locals and response of each
    get,      \* the GET /:id task: position, locals and response
    written,  \* history: the paths that have been opened for writing
    lastDone, \* history: path |-> the text of the write to it that completed last
    cand,     \* the candidate given to the id check on its own
    verdict   \* its verdict: "pending", "ok" or "rejected"

vars == <<files, post, get, written, lastDone, cand, verdict>>

NoFiles == [p \in {} |-> <<>>]

\* create_dir_all keeps what is in the directory: the process starts on the
\* pastes of an earlier run, here one paste under "aaaaaa"; no file of
\* another id exists
StartDir == FilePath(IdAs) :> TextBE

\* A POST task before its request arrives.  idx is the part of the form the
\* loop is at, off the offset of the task's file handle; created records that
\* its File::create has succeeded and failed that its fs::write has returned
\* an error.
PostIdle ==
    [pc |-> "idle", req |-> Request(NoHeader, NoHeader, <<>>), idx |-> 0,
     content |-> <<>>, id |-> <<>>, off |-> 0, created |-> FALSE,
     failed |-> FALSE, status |-> 0, msg |-> "", body |-> <<>>]

\* The GET task with no request.  In a request, steps lists what the handler
\* has done, in order, off is the offset of its file handle, buf what it has
\* read and kind the result of the read.  History: after is the texts of the
\* submissions of the id that had been answered 200 when the request arrived,
\* absent that no file of the id existed when the open was made.
GetIdle ==
    [pc |-> "idle", id |-> <<>>, steps |-> <<>>, after |-> {}, absent |-> FALSE,
     off |-> 0, buf |-> <<>>, kind |-> "None", status |-> 0, ctype |-> "",
     body |-> <<>>]

\* The handlers of the MaxPosts requests of a run are tasks of their own and
\* have no names: post is the bag of their states.
StartTasks == [p \in {PostIdle} |-> MaxPosts]

\* the tasks in their different states
Tasks == BagToSet(post)

\* the bag of tasks after the task in state p has moved to state q
Moved(p, q) == (post (-) SetToBag({p})) (+) SetToBag({q})

Init ==
    /\ files = StartDir
    /\ written = DOMAIN StartDir
    /\ post = StartTasks
    /\ get = GetIdle
    /\ lastDone = NoFiles
    /\ cand = <<>>
    /\ verdict = "pending"

\* The answer of a GET stays in get until the next step of another request.
GetKept == IF get.pc = "done" THEN GetIdle ELSE get

\* ------------------------------------------------------------------ POST /
\* a 400 answer with its message; {e} stands for the text of the error
PostRejected(p, msg) == [p EXCEPT !.pc = "done", !.status = 400, !.msg = msg]

\* The request arrives: the handler starts and awaits the first next_field()
PostReceive(req) ==
    \E p \in Tasks :
        /\ p.pc = "idle"
        /\ post' = Moved(p, [p EXCEPT !.pc = "next_field", !.req = req, !.idx = 1])
        /\ get' = GetKept
        /\ UNCHANGED <<files, written, lastDone, cand, verdict>>

\* the task after next_field() has returned at part idx
PostField(p) ==
    LET f == NextField(p.req.form, p.idx)
    IN  IF f = "error" THEN PostRejected(p, "Error processing form data: {e}")
        ELSE IF f = "none" THEN PostRejected(p, "Missing 'rbin' form field")
        ELSE IF f = "rbin" THEN [p EXCEPT !.pc = "text"]
        ELSE [p EXCEPT !.pc = "bytes"]

\* next_field() returns: the loop ends, fails, or goes on to read the part
PostNextField ==
    \E p \in Tasks :
        /\ p.pc = "next_field"
        /\ post' = Moved(p, PostField(p))
        /\ get' = GetKept
        /\ UNCHANGED <<files, written, lastDone, cand, verdict>>

\* field.bytes() of a part with another name returns; its result is dropped
PostBytes ==
    \E p \in Tasks :
        /\ p.pc = "bytes"
        /\ post' = Moved(p, [p EXCEPT !.pc = "next_field", !.idx = @ + 1])
        /\ get' = GetKept
        /\ UNCHANGED <<files, written, lastDone, cand, verdict>>

\* The task after field.text() of the 'rbin' part has returned.  Without a
\* text, or with an empty one, the handler returns 400; otherwise it draws
\* the id newId, builds the path and calls fs::write.
PostAccept(p, newId) ==
    LET r == FieldText(p.req.form[p.idx])
    IN  IF ~ r.ok THEN PostRejected(p, "Failed to read field data: {e}")
        ELSE IF IsEmpty(r.text) THEN PostRejected(p, "Paste content cannot be empty")
        ELSE [p EXCEPT !.pc = "create", !.content = r.text, !.id = newId]

\* field.text() returns
PostText(newId) ==
    \E p \in Tasks :
        /\ p.pc = "text"
        /\ post' = Moved(p, PostAccept(p, newId))
        /\ get' = GetKept
        /\ UNCHANGED <<files, written, lastDone, cand, verdict>>

\* File::create on the path: the file is created, or the one that is there is
\* truncated.  There is no existence check.
CreateFile(fls, path) ==
    [p \in DOMAIN fls \cup {path} |-> IF p = path THEN <<>> ELSE fls[p]]

\* fs::write, first part: File::create opens the path of the task's id
PostCreate ==
    \E p \in Tasks :
        /\ p.pc = "create"
        /\ files' = CreateFile(files, FilePath(p.id))
        /\ written' = written \cup {FilePath(p.id)}
        /\ post' = Moved(p, [p EXCEPT !.pc = "write", !.created = TRUE])
        /\ get' = GetKept
        /\ UNCHANGED <<lastDone, cand, verdict>>

\* the task when fs::write has failed: the handle is closed, the handler is
\* still to be resumed
PostFailed(p) == [p EXCEPT !.pc = "resume", !.off = 0, !.failed = TRUE]

\* File::create fails (permissions, no space): nothing is changed
PostCreateFail ==
    \E p \in Tasks :
        /\ p.pc = "create"
        /\ post' = Moved(p, PostFailed(p))
        /\ get' = GetKept
        /\ UNCHANGED <<files, written, lastDone, cand, verdict>>

\* the task after a write call took n bytes: write_all goes on, or the text
\* is complete and fs::write returns
PostWritten(p, n) ==
    IF p.off + n = Len(p.content)
    THEN [p EXCEPT !.pc = "resume", !.off = 0]
    ELSE [p EXCEPT !.off = @ + n]

\* fs::write, second part: one write call of write_all takes the next n
\* bytes of the text at the offset of this task's handle
PostWrite(n) ==
    \E p \in Tasks :
        /\ p.pc = "write"
        /\ n \in 1..(Len(p.content) - p.off)
        /\ LET path == FilePath(p.id)
               off == p.off
               bytes == SubSeq(p.content, off + 1, off + n)
           IN  /\ files' = [files EXCEPT ![path] = WriteAt(@, off, bytes)]
               /\ lastDone' =
                     IF off + n = Len(p.content)
                     THEN [f \in DOMAIN lastDone \cup {path} |->
                              IF f = path THEN p.content ELSE lastDone[f]]
                     ELSE lastDone
        /\ post' = Moved(p, PostWritten(p, n))
        /\ get' = GetKept
        /\ UNCHANGED <<written, cand, verdict>>

\* a write call fails (no space, device error): the file keeps what the
\* earlier write calls put there
PostWriteFail ==
    \E p \in Tasks :
        /\ p.pc = "write"
        /\ post' = Moved(p, PostFailed(p))
        /\ get' = GetKept
        /\ UNCHANGED <<files, written, lastDone, cand, verdict>>

\* the answer of a submission whose fs::write has returned: 500 on an error,
\* else 200 and the URL
PostOk(p) ==
    IF p.failed
    THEN [p EXCEPT !.pc = "done", !.status = 500, !.msg = "Failed to save paste: {e}"]
    ELSE [p EXCEPT !.pc = "done", !.status = 200, !.body = ResultUrl(p.req, p.id)]

\* the handler is resumed after fs::write and answers
PostAnswer ==
    \E p \in Tasks :
        /\ p.pc = "resume"
        /\ post' = Moved(p, PostOk(p))
        /\ get' = GetKept
        /\ UNCHANGED <<files, written, lastDone, cand, verdict>>

\* --------------------------------------------------------------- GET /:id
\* the answer to a request whose id the check rejects
GetRejected(id) ==
    [GetIdle EXCEPT !.pc = "done", !.id = id, !.steps = <<"check">>,
                    !.status = 400, !.ctype = TextHtml,
                    !.body = <<73, 110, 118, 97, 108, 105, 100, 32, 112, 97, 115, 116, 101, 32, 73, 68, 32, 102, 111, 114, 109, 97, 116, 46>>]

\* the task whose id the check accepts: the path is built and
\* fs::read_to_string is called
GetOpening(id, stored) ==
    [GetIdle EXCEPT !.pc = "open", !.id = id, !.steps = <<"check", "path", "read">>,
                    !.after = stored]

\* a handler without the check
RetrievePasteUnchecked(id, stored) == GetOpening(id, stored)

\* retrieve_paste up to its await: the check comes first and a rejected id
\* returns before the path is built
RetrievePaste(id, stored) ==
    IF ~ IdAccepted(id) THEN GetRejected(id) ELSE GetOpening(id, stored)

\* the texts of the submissions of the id that have been answered 200
StoredBefore(id) ==
    {p.content : p \in {q \in Tasks : q.pc = "done" /\ q.status = 200 /\ q.id = id}}

\* GET /:id arrives, once the request before it is answered
GetRequest(id) ==
    /\ get.pc \in {"idle", "done"}
    /\ get' = RetrievePaste(id, StoredBefore(id))
    /\ UNCHANGED <<files, post, written, lastDone, cand, verdict>>

\* the task when fs::read_to_string has returned r: the handle is closed,
\* the handler is still to be resumed
GetReturned(g, r) == [g EXCEPT !.pc = "resume", !.off = 0, !.buf = r.text, !.kind = r.kind]

\* fs::read_to_string, first part: the open finds the file, or fails with
\* NotFound
GetOpen ==
    /\ get.pc = "open"
    /\ get' = IF FilePath(get.id) \in DOMAIN files
              THEN [get EXCEPT !.pc = "read"]
              ELSE GetReturned([get EXCEPT !.absent = TRUE], NotFound)
    /\ UNCHANGED <<files, post, written, lastDone, cand, verdict>>

\* the task after a read call returned the bytes: at the end of the file the
\* read is complete, what was read is checked and fs::read_to_string returns
GetTaken(g, bytes) ==
    IF bytes = <<>> THEN GetReturned(g, FromUtf8(g.buf))
    ELSE [g EXCEPT !.off = @ + Len(bytes), !.buf = @ \o bytes]

\* fs::read_to_string, second part: one read call takes up to n bytes of what
\* the file holds at the offset of this task's handle
GetRead(n) ==
    /\ get.pc = "read"
    /\ get' = GetTaken(get, ReadAt(files[FilePath(get.id)], get.off, n))
    /\ UNCHANGED <<files, post, written, lastDone, cand, verdict>>

\* the open or a read call fails for a reason other than a missing file
\* (permissions on the file or the directory, device error), whether or not
\* the file exists
GetReadFail ==
    /\ get.pc \in {"open", "read"}
    /\ get' = GetReturned(
                 [get EXCEPT !.absent = IF get.pc = "open"
                                        THEN FilePath(get.id) \notin DOMAIN files
                                        ELSE @],
                 PermissionDenied)
    /\ UNCHANGED <<files, post, written, lastDone, cand, verdict>>

\* the answer to a request whose read gave r
GetAnswered(g, r) ==
    LET resp == ReadResponse(g.id, r)
    IN  [g EXCEPT !.pc = "done", !.after = {}, !.absent = FALSE, !.off = 0,
                  !.buf = <<>>, !.kind = r.kind, !.status = resp.status,
                  !.ctype = resp.ctype, !.body = resp.body]

\* the handler is resumed after fs::read_to_string, matches on the result
\* and answers
GetAnswer ==
    /\ get.pc = "resume"
    /\ get' = GetAnswered(get, [kind |-> get.kind, text |-> get.buf])
    /\ UNCHANGED <<files, post, written, lastDone, cand, verdict>>

\* ---------------------------------------------------------- specification
Next ==
    \/ \E req \in Requests : PostReceive(req)
    \/ PostNextField
    \/ PostBytes
    \/ \E newId \in GeneratedIds : PostText(newId)
    \/ PostCreate
    \/ PostCreateFail
    \/ \E n \in 1..3 : PostWrite(n)
    \/ PostWriteFail
    \/ PostAnswer
    \/ \E id \in RequestedIds : GetRequest(id)
    \/ GetOpen
    \/ \E n \in 1..3 : GetRead(n)
    \/ GetReadFail
    \/ GetAnswer

Spec == Init /\ [][Next]_vars

\* The id check on its own, applied to every candidate of up to MaxCandLen
\* characters.
InitCheck ==
    /\ files = StartDir
    /\ written = DOMAIN StartDir
    /\ post = StartTasks
    /\ get = GetIdle
    /\ lastDone = NoFiles
    /\ cand \in Candidates
    /\ verdict = "pending"

CheckId ==
    /\ verdict = "pending"
    /\ verdict' = IF IdAccepted(cand) THEN "ok" ELSE "rejected"
    /\ UNCHANGED <<files, post, get, written, lastDone, cand>>

NextCheck == CheckId

SpecCheck == InitCheck /\ [][NextCheck]_vars

\* ================================================================== claims
\* the submissions that have been answered 200
Answered == {p \in Tasks : p.pc = "done" /\ p.status = 200}

\* the id at the end of the URL a submission was answered with
ReturnedId(p) == SubSeq(p.body, Len(p.body) - ID_LENGTH + 1, Len(p.body))

\* the step moves a task out of state p
Leaves(p) == CopiesIn(p, post') < CopiesIn(p, post)

\* the step answers the GET request
GetStep == get.pc # "done" /\ get'.pc = "done"

\* C1: once a paste is persisted under an id (its POST has answered 200), the
\* content stored for that id never changes.
C1_Immutable ==
    [][\A path \in DOMAIN files :
          (\E p \in Answered : FilePath(p.id) = path)
              => files'[path] = files[path]]_vars

\* C2: two different POST / submissions that both answer 200 never return the
\* same id.
C2_UniqueIds ==
    \A p, q \in Answered :
        (p # q \/ CopiesIn(p, post) > 1) => ReturnedId(p) # ReturnedId(q)

\* C3: the id check accepts a candidate only if it is exactly ID_LENGTH
\* characters, all of [A-Za-z0-9].
C3_CheckRejectsMalformed ==
    verdict = "ok" =>
        /\ Len(cand) = ID_LENGTH
        /\ \A i \in 1..Len(cand) : IsAsciiAlphanumeric(cand[i])

\* what C4 says of a GET request
FailClosed ==
    get.pc # "idle" =>
        /\ get.steps[1] = "check"
        /\ ~ IdAccepted(get.id) =>
              /\ get.pc = "done"
              /\ get.status = 400
              /\ get.steps = <<"check">>
              /\ get.kind = "None"

\* C4: in GET /:id the id check runs before the path is built and before any
\* filesystem call; when it rejects the id the request ends with 400, makes
\* no filesystem call and leaves the paste directory unchanged.
C4_FailClosed ==
    /\ []FailClosed
    /\ [][(get' # get /\ get'.pc # "idle" /\ ~ IdAccepted(get'.id))
              => files' = files]_vars

\* a rejected GET of "../etc" while a submission is writing its file
C4_Witness ==
    /\ get.pc = "done"
    /\ get.id = IdDotDotEtc
    /\ get.status = 400
    /\ \E p \in Tasks : p.pc = "write" /\ p.off > 0

\* C5: a POST / that answered 200 with id i, followed by GET /i, yields 200
\* with exactly the submitted content (reads that fail with a permission or
\* device error set aside).
C5_RoundTrip ==
    [][(GetStep /\ get'.kind # "PermissionDenied") =>
          \A c \in get.after : get'.status = 200 /\ get'.body = c]_vars

\* no step of a GET request changes the paste directory
ReadOnly == (get' # get /\ post' = post) => files' = files

\* C6 as stated: for an id the check accepts, GET /:id answers 404 when no
\* file of that id exists, in particular for an id never written, answers
\* 500 for any other read error, and leaves the directory unchanged.
C6_ReadOutcome ==
    /\ [][(GetStep /\ IdAccepted(get'.id)) =>
            /\ get.absent => get'.status = 404
            /\ FilePath(get'.id) \notin written => get'.status = 404
            /\ (get'.status = 404) <=> (get'.kind = "NotFound")
            /\ (get'.status = 500) <=> (get'.kind \in {"InvalidData", "PermissionDenied"})]_vars
    /\ [][ReadOnly]_vars

\* C6 as amended: for an id the check accepts, GET /:id answers 404 when no
\* file of that id exists at the open, in particular for an id never written,
\* unless the read fails with another error; it answers 500 for any other
\* read error; 404 and 500 are not conflated and the directory is unchanged.
C6_ReadOutcomeAmended ==
    /\ [][(GetStep /\ IdAccepted(get'.id)) =>
            /\ (get.absent /\ get'.kind # "PermissionDenied") => get'.status = 404
            /\ (FilePath(get'.id) \notin written /\ get'.kind # "PermissionDenied")
                  => get'.status = 404
            /\ (get'.status = 404) <=> (get'.kind = "NotFound")
            /\ (get'.status = 500) <=> (get'.kind \in {"InvalidData", "PermissionDenied"})]_vars
    /\ [][ReadOnly]_vars

\* GET of "aZ3kq9" found no file at the open and is answered 404 after a
\* submission has stored its paste under that id
C6_Witness ==
    /\ get.pc = "done"
    /\ get.id = IdExample
    /\ get.status = 404
    /\ FilePath(get.id) \in DOMAIN files
    /\ \E p \in Answered : p.id = get.id

\* the form has no 'rbin' part
NoRbinField(form) ==
    \A i \in 1..Len(form) : form[i].ok /\ form[i].read /\ form[i].name # "rbin"

\* the first 'rbin' part of the form has an empty text: no data, or nothing
\* but a byte order mark
EmptyRbinField(form) ==
    \E i \in 1..Len(form) :
        /\ form[i].ok /\ form[i].read /\ form[i].name = "rbin"
        /\ form[i].data \in {<<>>, ByteOrderMark, ByteOrderMarkLE, ByteOrderMarkBE}
        /\ \A j \in 1..(i - 1) : form[j].ok /\ form[j].read /\ form[j].name # "rbin"

\* what C7 says of the submissions whose request has arrived
EmptyRejected ==
    \A p \in Tasks :
        p.pc # "idle" =>
            /\ NoRbinField(p.req.form) =>
                  /\ p.pc \in {"next_field", "bytes", "done"}
                  /\ p.pc = "done" =>
                        p.status = 400 /\ p.msg = "Missing 'rbin' form field"
                  /\ p.id = <<>> /\ ~ p.created
            /\ EmptyRbinField(p.req.form) =>
                  /\ p.pc \in {"next_field", "bytes", "text", "done"}
                  /\ p.pc = "done" =>
                        p.status = 400 /\ p.msg = "Paste content cannot be empty"
                  /\ p.id = <<>> /\ ~ p.created

\* C7: a POST / whose 'rbin' field is empty, or that has no 'rbin' field, is
\* answered 400; no id is drawn, no file is created or overwritten and the
\* paste directory is unchanged.
C7_EmptyRejected ==
    /\ []EmptyRejected
    /\ [][\A p \in Tasks :
             (Leaves(p) /\ p.pc # "idle"
                 /\ (NoRbinField(p.req.form) \/ EmptyRbinField(p.req.form)))
                 => (files' = files /\ written' = written)]_vars

\* an empty submission and one without the field have been rejected
C7_Witness ==
    \E s, t \in Tasks :
        /\ s.pc = "done" /\ EmptyRbinField(s.req.form)
        /\ t.pc = "done" /\ NoRbinField(t.req.form)

\* p is the only submission that has opened the file of its id
OnlyWriter(p) ==
    /\ {t \in Tasks : t.created /\ t.id = p.id} = {p}
    /\ CopiesIn(p, post) = 1

\* what C8 says of the stored pastes: a paste whose id no other submission
\* has written is stored with its own content
OwnContent ==
    \A p \in Answered :
        OnlyWriter(p) =>
            /\ FilePath(p.id) \in DOMAIN files
            /\ files[FilePath(p.id)] = p.content

\* C8: a write under id i leaves the content of every other id unchanged, so
\* submissions that received distinct ids are each stored and retrieved with
\* their own content, in any interleaving.
C8_NonInterference ==
    /\ []OwnContent
    /\ [][\A path \in DOMAIN files' :
             (path \notin DOMAIN files \/ files'[path] # files[path]) =>
                 \E p \in Tasks : Leaves(p) /\ FilePath(p.id) = path]_vars
    /\ [][\A p \in Answered :
             (GetStep /\ get.id = p.id /\ p.content \in get.after /\ OnlyWriter(p)
                 /\ get'.kind # "PermissionDenied")
                 => (get'.status = 200 /\ get'.body = p.content)]_vars

\* two pastes under distinct ids, and the GET just answered returned one
C8_Witness ==
    \E p, q \in Answered :
        /\ p.id # q.id
        /\ p.content # q.content
        /\ get.pc = "done" /\ get.id = p.id
        /\ get.status = 200 /\ get.body = p.content

\* the submissions whose fs::write to the path has returned without error
Completed(path) ==
    {p \in Tasks : /\ FilePath(p.id) = path
                   /\ p.created /\ ~ p.failed
                   /\ p.pc \in {"resume", "done"}}

\* C9: when two submissions selected the same id and both writes succeeded,
\* the content stored for the id is the content of the submission whose write
\* completed last.
C9_LastWriteWins ==
    \A path \in DOMAIN lastDone :
        LET W == {p \in Tasks : p.created /\ FilePath(p.id) = path}
        IN  (/\ W = Completed(path)
             /\ (Cardinality(W) >= 2 \/ \E p \in W : CopiesIn(p, post) >= 2))
                => files[path] = lastDone[path]

\* C10: every GET /:id answered 200 returns the complete content of one
\* submission made for that id (of this run, or the paste an earlier run
\* stored under it).
C10_NoPartialContent ==
    get.status = 200 =>
        \/ \E p \in Tasks : p.id = get.id /\ p.content = get.body
        \/ /\ FilePath(get.id) \in DOMAIN StartDir
           /\ StartDir[FilePath(get.id)] = get.body

====
